---- MODULE Spec2Model ----
(***************************************************************************)
(* Record classes of src/models.py (granular impact analysis V8.2): the    *)
(* dataclass constructors with their __post_init__ validation, and         *)
(* attribute assignment on the (non-frozen) dataclass instances.           *)
(*                                                                         *)
(* Representation.                                                         *)
(*   - A str is a sequence of characters, so len() is Len.                 *)
(*   - Optional[T]: None is <<>>, a present value v is <<v>>; the empty    *)
(*     string <<>> wrapped as << <<>> >> stays distinct from None.         *)
(*   - A float is held in hundredths: 0.0 is 0, 0.5 is 50, 1.0 is One,     *)
(*     -0.01 is -1 and 1.01 is One + 1. Comparisons are exact.             *)
(*   - A datetime is a tick of a small clock.                              *)
(*   - An enum member is the string of its member name.                    *)
(***************************************************************************)
EXTENDS Integers, Sequences, FiniteSets, TLC

VARIABLES
    call,   \* the last operation: its kind, class and the instance's fields
    ret,    \* the live object the last call returned (None when it raised)
    exc,    \* the exception the last call raised (None when it returned)
    prev    \* history: the record of the same class constructed before the
            \* last call, kept for the classes whose records are compared
            \* with one another

vars == <<call, ret, exc, prev>>

----------------------------------------------------------------------------
(* Bounds of the exploration *)

\* checksum lengths tried: 0 and ChecksumLen - MaxOff .. ChecksumLen + MaxOff
MaxOff == 1
\* datetime values are 1..MaxTime
MaxTime == 1

(* Program constants *)

\* len(self.content_checksum) != 64
ChecksumLen == 64
\* the float 1.0, in hundredths
One == 100

----------------------------------------------------------------------------
(* Values *)

None == <<>>
Some(v) == <<v>>
Val(o) == o[1]

Str(n, c) == [i \in 1..n |-> c]

Times == 1..MaxTime
Lens == {0} \cup ((ChecksumLen - MaxOff)..(ChecksumLen + MaxOff))
\* floats tried for a field documented "0.0 to 1.0"
Fractions == {-1, 0, 50, 92, One, One + 1}
OptFractions == {None} \cup {Some(x) : x \in {-1, 0, One, One + 1}}

ContentStatus == {"ACTIVE", "ARCHIVED", "DELETED"}
ChangeType ==
    {"NEW_CONTENT", "MODIFIED_CONTENT", "UNCHANGED_CONTENT", "DELETED_CONTENT",
     "LOCATION_CHANGE"}
InvalidationReason ==
    {"CONTENT_CHANGED", "CONTENT_DELETED", "QUALITY_ISSUE", "MANUAL",
     "SELECTIVE_IMPACT"}
ImpactLevel == {"HIGH", "MEDIUM", "LOW", "NONE"}

\* raise ValueError(f"<field> must be ..., got {<got>}")
ValueError(f, g) == [type |-> "ValueError", field |-> f, got |-> g]

\* Python's  0.0 <= x <= 1.0
InUnit(x) == 0 <= x /\ x <= One

\* Python truthiness of an Optional[str]: None and "" are both falsy
Truthy(o) == o # None /\ Len(Val(o)) # 0

----------------------------------------------------------------------------
(* ContentChecksum *)

ContentChecksumDefaults(now) ==
    [status |-> "ACTIVE", created_at |-> now,
     file_type |-> None, content_format |-> None, title |-> None,
     word_count |-> None, char_count |-> None, domain |-> None,
     service |-> None,
     file_name |-> None, page_number |-> None, section_name |-> None,
     url |-> None, breadcrumb |-> None, source_file_path |-> None,
     file_version |-> None,
     markdown_file_path |-> None, content_text |-> None]

ContentChecksum_post_init_short(self) ==
    IF Len(self.content_checksum) < ChecksumLen
    THEN Some(ValueError("content_checksum", Len(self.content_checksum)))
    ELSE None

ContentChecksum_post_init(self) ==
    IF Len(self.content_checksum) # ChecksumLen
    THEN Some(ValueError("content_checksum", Len(self.content_checksum)))
    ELSE None

----------------------------------------------------------------------------
(* FAQQuestionSource, FAQAnswerSource *)

FAQQuestionSourceDefaults(now) ==
    [is_valid |-> TRUE, valid_from |-> now, created_at |-> now,
     source_id |-> None, is_primary_source |-> FALSE,
     contribution_weight |-> None, valid_until |-> None,
     invalidation_reason |-> None, invalidated_by_change_id |-> None]

FAQQuestionSource_post_init_strict(self) ==
    IF self.contribution_weight # None
       /\ ~(0 <= Val(self.contribution_weight)
            /\ Val(self.contribution_weight) < One)
    THEN Some(ValueError("contribution_weight", Val(self.contribution_weight)))
    ELSE None

FAQQuestionSource_post_init(self) ==
    IF self.contribution_weight # None
       /\ ~InUnit(Val(self.contribution_weight))
    THEN Some(ValueError("contribution_weight", Val(self.contribution_weight)))
    ELSE None

FAQAnswerSourceDefaults(now) ==
    [is_valid |-> TRUE, valid_from |-> now, created_at |-> now,
     source_id |-> None, is_primary_source |-> FALSE,
     contribution_weight |-> None, context_employed |-> None,
     valid_until |-> None, invalidation_reason |-> None,
     invalidated_by_change_id |-> None]

FAQAnswerSource_post_init(self) ==
    IF self.contribution_weight # None
       /\ ~InUnit(Val(self.contribution_weight))
    THEN Some(ValueError("contribution_weight", Val(self.contribution_weight)))
    ELSE None

----------------------------------------------------------------------------
(* ContentChangeLog *)

ContentChangeLogDefaults(now) ==
    [detection_timestamp |-> now, total_faqs_at_risk |-> 0,
     affected_question_count |-> 0, affected_answer_count |-> 0,
     change_id |-> None, previous_checksum |-> None, page_number |-> None,
     section_name |-> None, change_type |-> None, similarity_score |-> None,
     similarity_method |-> None, detection_period_start |-> None,
     source_modified_at |-> None, domain |-> None, service |-> None]

ContentChangeLog_post_init(self) ==
    IF Len(self.content_checksum) # ChecksumLen
    THEN Some(ValueError("content_checksum", Len(self.content_checksum)))
    ELSE IF Truthy(self.previous_checksum)
            /\ Len(Val(self.previous_checksum)) # ChecksumLen
    THEN Some(ValueError("previous_checksum", Len(Val(self.previous_checksum))))
    ELSE IF self.similarity_score # None
            /\ ~InUnit(Val(self.similarity_score))
    THEN Some(ValueError("similarity_score", Val(self.similarity_score)))
    ELSE None

----------------------------------------------------------------------------
(* FAQImpactAnalysis *)

FAQImpactAnalysisDefaults(now) ==
    [analyzed_at |-> now,
     impact_id |-> None, diff_id |-> None, answer_id |-> None,
     lexical_overlap_score |-> None, semantic_similarity_score |-> None,
     keyword_match_score |-> None, phrase_match_score |-> None,
     impact_level |-> None, confidence |-> None,
     impact_reason |-> None, matched_changes |-> None,
     analysis_method |-> None, analysis_version |-> None]

FAQImpactAnalysis_post_init_score_only(self) ==
    IF ~InUnit(self.overall_impact_score)
    THEN Some(ValueError("overall_impact_score", self.overall_impact_score))
    ELSE None

FAQImpactAnalysis_post_init(self) ==
    IF ~InUnit(self.overall_impact_score)
    THEN Some(ValueError("overall_impact_score", self.overall_impact_score))
    ELSE IF self.confidence # None /\ ~InUnit(Val(self.confidence))
    THEN Some(ValueError("confidence", Val(self.confidence)))
    ELSE None

----------------------------------------------------------------------------
(* The remaining record classes: FAQQuestion, FAQAnswer, ContentDiff,      *)
(* AuditLogEntry, ContentChange                                            *)

FAQQuestionDefaults(now) ==
    [question_id |-> None, question_text |-> <<>>, status |-> "ACTIVE",
     created_at |-> now, modified_at |-> now,
     source_type |-> None, generation_method |-> None,
     domain |-> None, service |-> None,
     created_by |-> <<"s", "y", "s", "t", "e", "m">>,
     modified_by |-> <<"s", "y", "s", "t", "e", "m">>]

FAQAnswerDefaults(now) ==
    [status |-> "ACTIVE", created_at |-> now, modified_at |-> now,
     answer_id |-> None, answer_format |-> "HTML", confidence_score |-> None,
     created_by |-> <<"s", "y", "s", "t", "e", "m">>,
     modified_by |-> <<"s", "y", "s", "t", "e", "m">>]

FAQAnswer_post_init(self) ==
    IF self.confidence_score # None /\ ~InUnit(Val(self.confidence_score))
    THEN Some(ValueError("confidence_score", Val(self.confidence_score)))
    ELSE None

ContentDiffDefaults(now) ==
    [computed_at |-> now,
     diff_id |-> None, diff_type |-> None, diff_algorithm |-> None,
     additions_count |-> None, deletions_count |-> None,
     modifications_count |-> None, total_changes |-> None,
     change_percentage |-> None, diff_data |-> None,
     contains_numeric_changes |-> None, contains_date_changes |-> None,
     contains_policy_changes |-> None, contains_eligibility_changes |-> None,
     changed_phrases |-> None]

\* 0.0 <= change_percentage <= 100.0, in hundredths
ContentDiff_post_init(self) ==
    IF self.change_percentage # None
       /\ ~(0 <= Val(self.change_percentage)
            /\ Val(self.change_percentage) <= 100 * One)
    THEN Some(ValueError("change_percentage", Val(self.change_percentage)))
    ELSE None

AuditLogEntryDefaults(now) ==
    [performed_by |-> <<"s", "y", "s", "t", "e", "m">>, performed_at |-> now,
     audit_id |-> None, record_id |-> None, content_checksum |-> None,
     old_values |-> None, new_values |-> None, detection_run_id |-> None,
     change_reason |-> None]

ContentChangeDefaults(now) ==
    [detected_at |-> now,
     file_name |-> None, page_number |-> None, old_content |-> None,
     new_content |-> None, similarity_score |-> None,
     llm_friendly_diff |-> None]

----------------------------------------------------------------------------
(* Enum members and their values (member name |-> .value) *)

EnumValues ==
    [ContentStatus |->
        [ACTIVE |-> "active", ARCHIVED |-> "archived", DELETED |-> "deleted"],
     FAQStatus |->
        [ACTIVE |-> "active", INVALIDATED |-> "invalidated",
         ARCHIVED |-> "archived", DELETED |-> "deleted"],
     SourceType |->
        [FROM_DOCUMENTS |-> "from_documents",
         FROM_USER_QUERIES |-> "from_user_queries",
         FROM_MANUAL |-> "from_manual", FROM_VALIDATION |-> "from_validation"],
     GenerationMethod |->
        [LLM_GENERATED |-> "llm_generated", HUMAN_WRITTEN |-> "human_written",
         EXTRACTED |-> "extracted"],
     ChangeType |->
        [NEW_CONTENT |-> "new_content", MODIFIED_CONTENT |-> "modified_content",
         UNCHANGED_CONTENT |-> "unchanged_content",
         DELETED_CONTENT |-> "deleted_content",
         LOCATION_CHANGE |-> "location_change"],
     InvalidationReason |->
        [CONTENT_CHANGED |-> "content_changed",
         CONTENT_DELETED |-> "content_deleted",
         QUALITY_ISSUE |-> "quality_issue", MANUAL |-> "manual",
         SELECTIVE_IMPACT |-> "selective_impact"],
     DiffType |->
        [UNIFIED |-> "unified", WORD_DIFF |-> "word_diff",
         SEMANTIC_CHUNKS |-> "semantic_chunks"],
     DiffAlgorithm |->
        [MYERS |-> "myers", PATIENCE |-> "patience", HISTOGRAM |-> "histogram"],
     ImpactLevel |->
        [HIGH |-> "high", MEDIUM |-> "medium", LOW |-> "low", NONE |-> "none"],
     AnalysisMethod |->
        [RULE_BASED |-> "rule_based", ML_MODEL |-> "ml_model",
         HYBRID |-> "hybrid"],
     AuditAction |->
        [INSERT |-> "INSERT", UPDATE |-> "UPDATE", DELETE |-> "DELETE",
         INVALIDATE |-> "INVALIDATE", RESTORE |-> "RESTORE",
         SELECTIVE_INVALIDATE |-> "SELECTIVE_INVALIDATE"],
     AnswerFormat |->
        [HTML |-> "html", MARKDOWN |-> "markdown", PLAIN |-> "plain"]]

\* self.<f>.value
EnumValue(enum, m) == EnumValues[enum][m]

\* self.<f>.value if self.<f> else None: a member of a str-mixin Enum is
\* truthy when its value is a non-empty string
OptEnumValue(enum, o) ==
    IF o # None /\ EnumValues[enum][Val(o)] # ""
    THEN Some(EnumValues[enum][Val(o)])
    ELSE None

----------------------------------------------------------------------------
(* Construction: the dataclass-generated __init__ stores the keyword         *)
(* arguments over the field defaults and then runs __post_init__; when that  *)
(* raises, the caller gets the exception and no object. The datetime.now     *)
(* default factories of one call all read the same tick, now.                *)

Defaults(cls, now) ==
    CASE cls = "ContentChecksum" -> ContentChecksumDefaults(now)
      [] cls = "FAQQuestionSource" -> FAQQuestionSourceDefaults(now)
      [] cls = "FAQAnswerSource" -> FAQAnswerSourceDefaults(now)
      [] cls = "ContentChangeLog" -> ContentChangeLogDefaults(now)
      [] cls = "FAQImpactAnalysis" -> FAQImpactAnalysisDefaults(now)
      [] cls = "FAQQuestion" -> FAQQuestionDefaults(now)
      [] cls = "FAQAnswer" -> FAQAnswerDefaults(now)
      [] cls = "ContentDiff" -> ContentDiffDefaults(now)
      [] cls = "AuditLogEntry" -> AuditLogEntryDefaults(now)
      [] cls = "ContentChange" -> ContentChangeDefaults(now)

PostInit(cls, self) ==
    CASE cls = "ContentChecksum" -> ContentChecksum_post_init(self)
      [] cls = "FAQQuestionSource" -> FAQQuestionSource_post_init(self)
      [] cls = "FAQAnswerSource" -> FAQAnswerSource_post_init(self)
      [] cls = "ContentChangeLog" -> ContentChangeLog_post_init(self)
      [] cls = "FAQImpactAnalysis" -> FAQImpactAnalysis_post_init(self)
      [] cls = "FAQAnswer" -> FAQAnswer_post_init(self)
      [] cls = "ContentDiff" -> ContentDiff_post_init(self)
      [] OTHER -> None

\* classes whose earlier record is remembered in prev
Compared == {"ContentChecksum", "FAQImpactAnalysis"}

Construct(cls, kwargs, now) ==
    LET self == kwargs @@ Defaults(cls, now)
        e == PostInit(cls, self)
    IN  /\ call' = [op |-> "new", cls |-> cls, self |-> self]
        /\ exc' = e
        /\ ret' = IF e = None THEN Some(self) ELSE None
        /\ prev' = IF cls \in Compared /\ ret # None /\ call.cls = cls
                   THEN ret ELSE prev

NewContentChecksum(kwargs, now) == Construct("ContentChecksum", kwargs, now)
NewFAQQuestionSource(kwargs, now) == Construct("FAQQuestionSource", kwargs, now)
NewFAQAnswerSource(kwargs, now) == Construct("FAQAnswerSource", kwargs, now)
NewContentChangeLog(kwargs, now) == Construct("ContentChangeLog", kwargs, now)
NewFAQImpactAnalysis(kwargs, now) == Construct("FAQImpactAnalysis", kwargs, now)
NewFAQQuestion(kwargs, now) == Construct("FAQQuestion", kwargs, now)
NewFAQAnswer(kwargs, now) == Construct("FAQAnswer", kwargs, now)
NewContentDiff(kwargs, now) == Construct("ContentDiff", kwargs, now)
NewAuditLogEntry(kwargs, now) == Construct("AuditLogEntry", kwargs, now)
NewContentChange(kwargs, now) == Construct("ContentChange", kwargs, now)

\* link.<f> = v on a live provenance link: the dataclasses are not frozen and
\* define no __setattr__, so the assignment is stored without any validation.
IsLink(cls) == cls \in {"FAQQuestionSource", "FAQAnswerSource"}

SetLinkAttr(f, v) ==
    /\ ret # None
    /\ call.op \in {"new", "setattr"}
    /\ IsLink(call.cls)
    /\ call' = [op |-> "setattr", cls |-> call.cls, field |-> f]
    /\ ret' = Some([Val(ret) EXCEPT ![f] = v])
    /\ exc' = None
    /\ UNCHANGED prev

\* a == b on two ContentChecksum records: @dataclass (eq=True by default)
\* generates an __eq__ that compares the tuples of ALL fields, in order.
ContentChecksum_eq(self, other) ==
    \A f \in DOMAIN self : self[f] = other[f]

\* ret == prev evaluated on the two most recent Content records
EqContentChecksum ==
    /\ ret # None
    /\ prev # None
    /\ call.op = "new"
    /\ call.cls = "ContentChecksum"
    /\ call' = [op |-> "eq", cls |-> "ContentChecksum",
                result |-> ContentChecksum_eq(Val(ret), Val(prev))]
    /\ UNCHANGED <<ret, exc, prev>>

----------------------------------------------------------------------------
(* to_dict: the flat projection of each record class *)

ContentChecksum_to_dict(self) ==
    [content_checksum |-> self.content_checksum,
     file_type |-> self.file_type,
     content_format |-> self.content_format,
     title |-> self.title,
     word_count |-> self.word_count,
     char_count |-> self.char_count,
     domain |-> self.domain,
     service |-> self.service,
     status |-> EnumValue("ContentStatus", self.status),
     file_name |-> self.file_name,
     page_number |-> self.page_number,
     section_name |-> self.section_name,
     url |-> self.url,
     breadcrumb |-> self.breadcrumb,
     source_file_path |-> self.source_file_path,
     file_version |-> self.file_version,
     markdown_file_path |-> self.markdown_file_path,
     content_text |-> self.content_text,
     created_at |-> self.created_at]

FAQQuestion_to_dict(self) ==
    [question_id |-> self.question_id,
     question_text |-> self.question_text,
     source_type |-> OptEnumValue("SourceType", self.source_type),
     generation_method |-> OptEnumValue("GenerationMethod", self.generation_method),
     domain |-> self.domain,
     service |-> self.service,
     status |-> EnumValue("FAQStatus", self.status),
     created_at |-> self.created_at,
     modified_at |-> self.modified_at,
     created_by |-> self.created_by,
     modified_by |-> self.modified_by]

FAQQuestionSource_to_dict(self) ==
    [source_id |-> self.source_id,
     question_id |-> self.question_id,
     content_checksum |-> self.content_checksum,
     is_primary_source |-> self.is_primary_source,
     contribution_weight |-> self.contribution_weight,
     is_valid |-> self.is_valid,
     valid_from |-> self.valid_from,
     valid_until |-> self.valid_until,
     invalidation_reason |-> OptEnumValue("InvalidationReason", self.invalidation_reason),
     invalidated_by_change_id |-> self.invalidated_by_change_id,
     created_at |-> self.created_at]

FAQAnswer_to_dict(self) ==
    [answer_id |-> self.answer_id,
     question_id |-> self.question_id,
     answer_text |-> self.answer_text,
     answer_format |-> EnumValue("AnswerFormat", self.answer_format),
     confidence_score |-> self.confidence_score,
     status |-> EnumValue("FAQStatus", self.status),
     created_at |-> self.created_at,
     modified_at |-> self.modified_at,
     created_by |-> self.created_by,
     modified_by |-> self.modified_by]

FAQAnswerSource_to_dict(self) ==
    [source_id |-> self.source_id,
     answer_id |-> self.answer_id,
     content_checksum |-> self.content_checksum,
     is_primary_source |-> self.is_primary_source,
     contribution_weight |-> self.contribution_weight,
     context_employed |-> self.context_employed,
     is_valid |-> self.is_valid,
     valid_from |-> self.valid_from,
     valid_until |-> self.valid_until,
     invalidation_reason |-> OptEnumValue("InvalidationReason", self.invalidation_reason),
     invalidated_by_change_id |-> self.invalidated_by_change_id,
     created_at |-> self.created_at]

ContentChangeLog_to_dict(self) ==
    [change_id |-> self.change_id,
     content_checksum |-> self.content_checksum,
     previous_checksum |-> self.previous_checksum,
     file_name |-> self.file_name,
     page_number |-> self.page_number,
     section_name |-> self.section_name,
     requires_faq_regeneration |-> self.requires_faq_regeneration,
     change_type |-> OptEnumValue("ChangeType", self.change_type),
     similarity_score |-> self.similarity_score,
     similarity_method |-> self.similarity_method,
     total_faqs_at_risk |-> self.total_faqs_at_risk,
     affected_question_count |-> self.affected_question_count,
     affected_answer_count |-> self.affected_answer_count,
     detection_run_id |-> self.detection_run_id,
     detection_timestamp |-> self.detection_timestamp,
     detection_period_start |-> self.detection_period_start,
     source_modified_at |-> self.source_modified_at,
     domain |-> self.domain,
     service |-> self.service]

ContentDiff_to_dict(self) ==
    [diff_id |-> self.diff_id,
     change_id |-> self.change_id,
     old_checksum |-> self.old_checksum,
     new_checksum |-> self.new_checksum,
     diff_type |-> OptEnumValue("DiffType", self.diff_type),
     diff_algorithm |-> OptEnumValue("DiffAlgorithm", self.diff_algorithm),
     additions_count |-> self.additions_count,
     deletions_count |-> self.deletions_count,
     modifications_count |-> self.modifications_count,
     total_changes |-> self.total_changes,
     change_percentage |-> self.change_percentage,
     diff_data |-> self.diff_data,
     contains_numeric_changes |-> self.contains_numeric_changes,
     contains_date_changes |-> self.contains_date_changes,
     contains_policy_changes |-> self.contains_policy_changes,
     contains_eligibility_changes |-> self.contains_eligibility_changes,
     changed_phrases |-> self.changed_phrases,
     computed_at |-> self.computed_at]

FAQImpactAnalysis_to_dict_raw(self) ==
    [impact_id |-> self.impact_id,
     change_id |-> self.change_id,
     diff_id |-> self.diff_id,
     question_id |-> self.question_id,
     answer_id |-> self.answer_id,
     overall_impact_score |-> self.overall_impact_score,
     lexical_overlap_score |-> self.lexical_overlap_score,
     semantic_similarity_score |-> self.semantic_similarity_score,
     keyword_match_score |-> self.keyword_match_score,
     phrase_match_score |-> self.phrase_match_score,
     is_affected |-> self.is_affected,
     impact_level |-> self.impact_level,
     confidence |-> self.confidence,
     impact_reason |-> self.impact_reason,
     matched_changes |-> self.matched_changes,
     analysis_method |-> OptEnumValue("AnalysisMethod", self.analysis_method),
     analysis_version |-> self.analysis_version,
     analyzed_at |-> self.analyzed_at]

FAQImpactAnalysis_to_dict(self) ==
    [impact_id |-> self.impact_id,
     change_id |-> self.change_id,
     diff_id |-> self.diff_id,
     question_id |-> self.question_id,
     answer_id |-> self.answer_id,
     overall_impact_score |-> self.overall_impact_score,
     lexical_overlap_score |-> self.lexical_overlap_score,
     semantic_similarity_score |-> self.semantic_similarity_score,
     keyword_match_score |-> self.keyword_match_score,
     phrase_match_score |-> self.phrase_match_score,
     is_affected |-> self.is_affected,
     impact_level |-> OptEnumValue("ImpactLevel", self.impact_level),
     confidence |-> self.confidence,
     impact_reason |-> self.impact_reason,
     matched_changes |-> self.matched_changes,
     analysis_method |-> OptEnumValue("AnalysisMethod", self.analysis_method),
     analysis_version |-> self.analysis_version,
     analyzed_at |-> self.analyzed_at]

AuditLogEntry_to_dict(self) ==
    [audit_id |-> self.audit_id,
     table_name |-> self.table_name,
     record_id |-> self.record_id,
     content_checksum |-> self.content_checksum,
     action |-> EnumValue("AuditAction", self.action),
     old_values |-> self.old_values,
     new_values |-> self.new_values,
     detection_run_id |-> self.detection_run_id,
     change_reason |-> self.change_reason,
     performed_by |-> self.performed_by,
     performed_at |-> self.performed_at]

ContentChange_to_dict(self) ==
    [content_checksum |-> self.content_checksum,
     old_checksum |-> self.old_checksum,
     new_checksum |-> self.new_checksum,
     change_type |-> EnumValue("ChangeType", self.change_type),
     detected_at |-> self.detected_at,
     file_name |-> self.file_name,
     page_number |-> self.page_number,
     old_content |-> self.old_content,
     new_content |-> self.new_content,
     similarity_score |-> self.similarity_score,
     llm_friendly_diff |-> self.llm_friendly_diff]

to_dict(cls, self) ==
    CASE cls = "ContentChecksum" -> ContentChecksum_to_dict(self)
      [] cls = "FAQQuestion" -> FAQQuestion_to_dict(self)
      [] cls = "FAQQuestionSource" -> FAQQuestionSource_to_dict(self)
      [] cls = "FAQAnswer" -> FAQAnswer_to_dict(self)
      [] cls = "FAQAnswerSource" -> FAQAnswerSource_to_dict(self)
      [] cls = "ContentChangeLog" -> ContentChangeLog_to_dict(self)
      [] cls = "ContentDiff" -> ContentDiff_to_dict(self)
      [] cls = "FAQImpactAnalysis" -> FAQImpactAnalysis_to_dict(self)
      [] cls = "AuditLogEntry" -> AuditLogEntry_to_dict(self)
      [] cls = "ContentChange" -> ContentChange_to_dict(self)

\* ret.to_dict() on the live record: builds a new dict, assigns nothing
ToDict ==
    /\ ret # None
    /\ call.op = "new"
    /\ call' = [op |-> "to_dict", cls |-> call.cls,
                result |-> to_dict(call.cls, Val(ret))]
    /\ UNCHANGED <<ret, exc, prev>>

----------------------------------------------------------------------------
(* Inputs: keyword arguments of the constructors. Each set is a union of  *)
(* slices, one per group of fields that a validation reads or that a       *)
(* record invariant relates; fields left out take their defaults.          *)

Checksums == {Str(n, c) : n \in Lens, c \in {"a", "b"}}
OptTimes == {None} \cup {Some(t) : t \in Times}

ContentKwargs ==
    [content_checksum : Checksums]
    \cup
    [content_checksum : {Str(ChecksumLen, "a"), Str(ChecksumLen, "b")},
     status : ContentStatus,
     file_name : {None, Some(<<"f">>)}, page_number : {None, Some(1)}]

LinkKwargs ==
    [content_checksum : {Str(ChecksumLen, "a")},
     contribution_weight : {Some(x) : x \in Fractions}]
    \cup
    [content_checksum : {Str(ChecksumLen, "a")},
     is_valid : BOOLEAN, valid_until : OptTimes,
     invalidation_reason : {None, Some("CONTENT_CHANGED")}]

QuestionLinkKwargs == {k @@ [question_id |-> 1] : k \in LinkKwargs}
AnswerLinkKwargs == {k @@ [answer_id |-> 1] : k \in LinkKwargs}

LinkAssignments ==
    ({"is_valid"} \X BOOLEAN)
    \cup ({"valid_until"} \X OptTimes)
    \cup ({"invalidation_reason"} \X {None, Some("MANUAL")})

ChangeRequired ==
    [file_name |-> <<"f">>, requires_faq_regeneration |-> TRUE,
     detection_run_id |-> <<"r">>]

ChangeKwargs ==
    {k @@ ChangeRequired :
        k \in [content_checksum : {Str(n, "a") : n \in Lens},
               previous_checksum : {None} \cup {Some(Str(n, "b")) : n \in Lens},
               similarity_score : OptFractions]}
    \cup
    {k @@ ChangeRequired :
        k \in [content_checksum : {Str(ChecksumLen, "a")},
               previous_checksum : {None, Some(Str(ChecksumLen, "b"))},
               change_type : {Some(c) : c \in ChangeType}]}

\* sub-scores tried: below, inside and above the documented range
SubScores == {Some(-1), Some(50), Some(One + 1)}

ImpactRequired == [change_id |-> 1, question_id |-> 1]

ImpactKwargs ==
    {k @@ ImpactRequired :
        k \in [overall_impact_score : Fractions, is_affected : BOOLEAN]}
    \cup
    {k @@ ImpactRequired :
        k \in [overall_impact_score : Fractions, is_affected : {TRUE},
               impact_level : {Some(l) : l \in ImpactLevel}]}
    \cup
    {k @@ ImpactRequired :
        k \in [overall_impact_score : Fractions, is_affected : {FALSE},
               confidence : OptFractions]}
    \cup
    {k @@ ImpactRequired :
        k \in [overall_impact_score : {50, 92}, is_affected : BOOLEAN,
               impact_reason : {Some(<<"r">>)}]}
    \cup
    {k @@ ImpactRequired :
        k \in UNION {[overall_impact_score : {50}, is_affected : {FALSE},
                      lexical_overlap_score : SubScores],
                     [overall_impact_score : {50}, is_affected : {FALSE},
                      semantic_similarity_score : SubScores],
                     [overall_impact_score : {50}, is_affected : {FALSE},
                      keyword_match_score : SubScores],
                     [overall_impact_score : {50}, is_affected : {FALSE},
                      phrase_match_score : SubScores]}}

\* keyword arguments for the projection: every enum-typed field takes
\* several members, every optional enum is absent and present
OptMembers(enum) == {None} \cup {Some(m) : m \in DOMAIN EnumValues[enum]}

ProjectionKwargs ==
    [ContentChecksum |->
        [content_checksum : {Str(ChecksumLen, "a")},
         status : DOMAIN EnumValues["ContentStatus"],
         title : {None, Some(<<"t">>)}],
     FAQQuestion |->
        [question_text : {<<"q">>},
         status : DOMAIN EnumValues["FAQStatus"],
         source_type : {None, Some("FROM_MANUAL")},
         generation_method : {None, Some("LLM_GENERATED")}],
     FAQQuestionSource |->
        [question_id : {1}, content_checksum : {<<"c">>},
         invalidation_reason : OptMembers("InvalidationReason")],
     FAQAnswer |->
        [question_id : {1}, answer_text : {<<"a">>},
         status : {"ACTIVE", "INVALIDATED"},
         answer_format : DOMAIN EnumValues["AnswerFormat"],
         confidence_score : {None, Some(One)}],
     FAQAnswerSource |->
        [answer_id : {1}, content_checksum : {<<"c">>},
         invalidation_reason : OptMembers("InvalidationReason")],
     ContentChangeLog |->
        {k @@ ChangeRequired :
            k \in [content_checksum : {Str(ChecksumLen, "a")},
                   change_type : OptMembers("ChangeType")]},
     ContentDiff |->
        [change_id : {1}, old_checksum : {<<"o">>}, new_checksum : {<<"n">>},
         diff_type : OptMembers("DiffType"),
         diff_algorithm : {None, Some("MYERS")},
         change_percentage : {None, Some(100 * One), Some(100 * One + 1)}],
     FAQImpactAnalysis |->
        {k @@ ImpactRequired :
            k \in [overall_impact_score : {92}, is_affected : {TRUE},
                   impact_level : OptMembers("ImpactLevel"),
                   analysis_method : {None, Some("RULE_BASED")}]},
     AuditLogEntry |->
        [table_name : {<<"t">>}, action : DOMAIN EnumValues["AuditAction"]],
     ContentChange |->
        [content_checksum : {<<"n">>}, old_checksum : {<<"o">>},
         new_checksum : {<<"n">>},
         change_type : DOMAIN EnumValues["ChangeType"]]]

----------------------------------------------------------------------------
(* Specifications: one per record family *)

Init ==
    /\ call = [op |-> "init"]
    /\ ret = None
    /\ exc = None
    /\ prev = None

NextContent ==
    \/ \E k \in ContentKwargs, now \in Times : NewContentChecksum(k, now)
    \/ EqContentChecksum

NextLink ==
    \/ \E k \in QuestionLinkKwargs, now \in Times : NewFAQQuestionSource(k, now)
    \/ \E k \in AnswerLinkKwargs, now \in Times : NewFAQAnswerSource(k, now)
    \/ \E a \in LinkAssignments : SetLinkAttr(a[1], a[2])

NextChange == \E k \in ChangeKwargs, now \in Times : NewContentChangeLog(k, now)

NextImpact == \E k \in ImpactKwargs, now \in Times : NewFAQImpactAnalysis(k, now)

NextToDict ==
    \/ \E k \in ProjectionKwargs["ContentChecksum"], now \in Times :
            NewContentChecksum(k, now)
    \/ \E k \in ProjectionKwargs["FAQQuestion"], now \in Times :
            NewFAQQuestion(k, now)
    \/ \E k \in ProjectionKwargs["FAQQuestionSource"], now \in Times :
            NewFAQQuestionSource(k, now)
    \/ \E k \in ProjectionKwargs["FAQAnswer"], now \in Times :
            NewFAQAnswer(k, now)
    \/ \E k \in ProjectionKwargs["FAQAnswerSource"], now \in Times :
            NewFAQAnswerSource(k, now)
    \/ \E k \in ProjectionKwargs["ContentChangeLog"], now \in Times :
            NewContentChangeLog(k, now)
    \/ \E k \in ProjectionKwargs["ContentDiff"], now \in Times :
            NewContentDiff(k, now)
    \/ \E k \in ProjectionKwargs["FAQImpactAnalysis"], now \in Times :
            NewFAQImpactAnalysis(k, now)
    \/ \E k \in ProjectionKwargs["AuditLogEntry"], now \in Times :
            NewAuditLogEntry(k, now)
    \/ \E k \in ProjectionKwargs["ContentChange"], now \in Times :
            NewContentChange(k, now)
    \/ ToDict

SpecContent == Init /\ [][NextContent]_vars
SpecToDict == Init /\ [][NextToDict]_vars
SpecLink == Init /\ [][NextLink]_vars
SpecChange == Init /\ [][NextChange]_vars
SpecImpact == Init /\ [][NextImpact]_vars

----------------------------------------------------------------------------
(* Properties *)

IsNew(cls) == call.op = "new" /\ call.cls = cls

\* C1 (as amended): constructing a ContentChecksum returns a record exactly
\* when content_checksum has 64 characters; for every other length it raises
\* a ValueError whose message names the content_checksum field and reports
\* the length, and no record is produced.
C1_ChecksumLengthEnforced ==
    IsNew("ContentChecksum") =>
        LET n == Len(call.self.content_checksum) IN
        /\ (n = 64) <=> (ret # None)
        /\ ret # None => exc = None /\ Len(Val(ret).content_checksum) = 64
        /\ n # 64 =>
            /\ ret = None
            /\ exc = Some([type |-> "ValueError", field |-> "content_checksum",
                           got |-> n])

\* C1 witness: a 65-character checksum was rejected, naming the field.
C1_Witness ==
    /\ IsNew("ContentChecksum")
    /\ Len(call.self.content_checksum) = 65
    /\ ret = None
    /\ exc # None
    /\ Val(exc).field = "content_checksum"

\* C1 (original): as above, but the failure is a ValidationError.
C1_Original ==
    IsNew("ContentChecksum") =>
        LET n == Len(call.self.content_checksum) IN
        /\ (n = 64) <=> (ret # None)
        /\ n # 64 =>
            /\ ret = None
            /\ exc # None
            /\ Val(exc).type = "ValidationError"
            /\ Val(exc).field = "content_checksum"

\* the decision threshold of the specification's Scenario B, 0.5
THRESHOLD == One \div 2

\* C2: every constructed FAQImpactAnalysis has
\* is_affected == (overall_impact_score >= THRESHOLD), and a record with
\* score 0.92 has is_affected = True and impact_level = HIGH.
C2_AffectedMatchesThreshold ==
    (IsNew("FAQImpactAnalysis") /\ ret # None) =>
        LET r == Val(ret) IN
        /\ r.is_affected <=> (r.overall_impact_score >= THRESHOLD)
        /\ r.overall_impact_score = 92 =>
            r.is_affected /\ r.impact_level = Some("HIGH")

LevelRank(l) ==
    CASE l = "NONE" -> 0 [] l = "LOW" -> 1 [] l = "MEDIUM" -> 2 [] l = "HIGH" -> 3

\* C3: of two constructed FAQImpactAnalysis records that both carry an
\* impact_level, the one with the higher overall_impact_score never has the
\* lower level (NONE < LOW < MEDIUM < HIGH).
C3_LevelMonotone ==
    (IsNew("FAQImpactAnalysis") /\ ret # None /\ prev # None) =>
        LET a == Val(ret)
            b == Val(prev)
        IN  (a.impact_level # None /\ b.impact_level # None) =>
            /\ a.overall_impact_score > b.overall_impact_score =>
                LevelRank(Val(a.impact_level)) >= LevelRank(Val(b.impact_level))
            /\ b.overall_impact_score > a.overall_impact_score =>
                LevelRank(Val(b.impact_level)) >= LevelRank(Val(a.impact_level))

\* C4: an operation on a provenance link whose valid_until is set leaves
\* valid_until as it is and does not make the link VALID again.
C4_ValidUntilWriteOnce ==
    [][(/\ ret # None
        /\ IsLink(call.cls)
        /\ call'.op = "setattr"
        /\ Val(ret).valid_until # None)
       => /\ Val(ret').valid_until = Val(ret).valid_until
          /\ ~(Val(ret').valid_until = None /\ Val(ret').is_valid)]_vars

\* C5: every live provenance link has is_valid iff valid_until is unset, has
\* invalidation_reason set when valid_until is set, and is VALID right after
\* construction.
C5_LinkStateConsistent ==
    (ret # None /\ IsLink(call.cls)) =>
        LET l == Val(ret) IN
        /\ l.is_valid <=> (l.valid_until = None)
        /\ l.valid_until # None => l.invalidation_reason # None
        /\ call.op = "new" => (l.is_valid /\ l.valid_until = None)

\* C6: constructing a FAQImpactAnalysis raises, producing no record, exactly
\* when overall_impact_score is outside [0.0, 1.0] or confidence is present
\* and outside [0.0, 1.0]; so every constructed record has its score, and any
\* present confidence, in [0.0, 1.0].
C6_ScoreAndConfidenceRange ==
    IsNew("FAQImpactAnalysis") =>
        LET s == call.self.overall_impact_score
            c == call.self.confidence
            bad == \/ s < 0
                   \/ s > 100
                   \/ (c # None /\ (Val(c) < 0 \/ Val(c) > 100))
        IN  /\ bad => (ret = None /\ exc # None /\ Val(exc).type = "ValueError")
            /\ ~bad => (ret # None /\ exc = None)
            /\ ret # None =>
                /\ 0 <= Val(ret).overall_impact_score
                /\ Val(ret).overall_impact_score <= 100
                /\ Val(ret).confidence # None =>
                    (0 <= Val(Val(ret).confidence) /\ Val(Val(ret).confidence) <= 100)

\* C6 witness: a score of exactly 1.0 with a confidence of 1.01 was rejected
\* for its confidence.
C6_Witness ==
    /\ IsNew("FAQImpactAnalysis")
    /\ call.self.overall_impact_score = 100
    /\ call.self.confidence = Some(101)
    /\ ret = None
    /\ exc # None
    /\ Val(exc).field = "confidence"

\* C7: constructing either kind of provenance link succeeds exactly when
\* contribution_weight is absent or 0.0 <= weight <= 1.0 (0.0 and 1.0
\* accepted, -0.01 and 1.01 rejected).
C7_ContributionWeightRange ==
    (call.op = "new" /\ IsLink(call.cls)) =>
        LET w == call.self.contribution_weight
            ok == w = None \/ (0 <= Val(w) /\ Val(w) <= 100)
        IN  /\ ok => (ret # None /\ exc = None)
            /\ ~ok =>
                /\ ret = None
                /\ exc # None
                /\ Val(exc).field = "contribution_weight"

\* C7 witness: a question-source link with weight exactly 1.0 was constructed.
C7_Witness ==
    /\ IsNew("FAQQuestionSource")
    /\ call.self.contribution_weight = Some(100)
    /\ ret # None
    /\ Val(ret).contribution_weight = Some(100)

\* C8: constructing a ContentChangeLog fails whenever content_checksum is not
\* 64 characters, or previous_checksum is present (any non-null value, of any
\* length including zero) and not 64 characters, or similarity_score is
\* present and outside [0.0, 1.0]; otherwise it succeeds.
C8_ChangeValidation ==
    IsNew("ContentChangeLog") =>
        LET s == call.self
            bad == \/ Len(s.content_checksum) # 64
                   \/ (s.previous_checksum # None
                       /\ Len(Val(s.previous_checksum)) # 64)
                   \/ (s.similarity_score # None
                       /\ (Val(s.similarity_score) < 0
                           \/ Val(s.similarity_score) > 100))
        IN  /\ bad => (ret = None /\ exc # None)
            /\ ~bad => ret # None

\* C9: every constructed FAQImpactAnalysis with is_affected true has an
\* impact_reason.
C9_AffectedHasReason ==
    (IsNew("FAQImpactAnalysis") /\ ret # None) =>
        (Val(ret).is_affected => Val(ret).impact_reason # None)

SubScoreOk(x) == x = None \/ (0 <= Val(x) /\ Val(x) <= 100)

\* C10: every constructed FAQImpactAnalysis has each present sub-score
\* (lexical, semantic, keyword, phrase) in [0.0, 1.0].
C10_SubScoresInRange ==
    (IsNew("FAQImpactAnalysis") /\ ret # None) =>
        LET r == Val(ret) IN
        /\ SubScoreOk(r.lexical_overlap_score)
        /\ SubScoreOk(r.semantic_similarity_score)
        /\ SubScoreOk(r.keyword_match_score)
        /\ SubScoreOk(r.phrase_match_score)

\* C11: two Content records with the same content_checksum compare equal,
\* whatever their file_name, page_number, url or breadcrumb (equality is
\* decided by the digest alone).
C11_EqualByDigestAlone ==
    (call.op = "eq" /\ call.cls = "ContentChecksum") =>
        (call.result <=>
            (Val(ret).content_checksum = Val(prev).content_checksum))

\* C12: every ContentChangeLog constructed with previous_checksum = None and
\* a valid 64-character content_checksum has change_type NEW_CONTENT.
C12_NewContentWhenNoPrevious ==
    (IsNew("ContentChangeLog") /\ ret # None) =>
        (Val(ret).previous_checksum = None =>
            Val(ret).change_type = Some("NEW_CONTENT"))

\* the fields annotated with an Enum class, and with Optional[<Enum class>]
EnumTyped(cls) ==
    CASE cls = "ContentChecksum" -> [status |-> "ContentStatus"]
      [] cls = "FAQQuestion" -> [status |-> "FAQStatus"]
      [] cls = "FAQQuestionSource" -> <<>>
      [] cls = "FAQAnswer" -> [status |-> "FAQStatus", answer_format |-> "AnswerFormat"]
      [] cls = "FAQAnswerSource" -> <<>>
      [] cls = "ContentChangeLog" -> <<>>
      [] cls = "ContentDiff" -> <<>>
      [] cls = "FAQImpactAnalysis" -> <<>>
      [] cls = "AuditLogEntry" -> [action |-> "AuditAction"]
      [] cls = "ContentChange" -> [change_type |-> "ChangeType"]

OptEnumTyped(cls) ==
    CASE cls = "ContentChecksum" -> <<>>
      [] cls = "FAQQuestion" -> [source_type |-> "SourceType", generation_method |-> "GenerationMethod"]
      [] cls = "FAQQuestionSource" -> [invalidation_reason |-> "InvalidationReason"]
      [] cls = "FAQAnswer" -> <<>>
      [] cls = "FAQAnswerSource" -> [invalidation_reason |-> "InvalidationReason"]
      [] cls = "ContentChangeLog" -> [change_type |-> "ChangeType"]
      [] cls = "ContentDiff" -> [diff_type |-> "DiffType", diff_algorithm |-> "DiffAlgorithm"]
      [] cls = "FAQImpactAnalysis" -> [impact_level |-> "ImpactLevel", analysis_method |-> "AnalysisMethod"]
      [] cls = "AuditLogEntry" -> <<>>
      [] cls = "ContentChange" -> <<>>

\* the string tag an enum-typed field carries in the projection
Rendered(cls, f, v) ==
    IF f \in DOMAIN EnumTyped(cls)
    THEN EnumValues[EnumTyped(cls)[f]][v]
    ELSE IF f \in DOMAIN OptEnumTyped(cls)
    THEN (IF v = None THEN None
          ELSE Some(EnumValues[OptEnumTyped(cls)[f]][Val(v)]))
    ELSE v

\* C13: for every record class, to_dict returns exactly one key per record
\* field, named as the field, holding the field's value with every enum-typed
\* field rendered as its string tag (an absent optional enum as None), and
\* leaves the record as it was.
C13_ToDictProjection ==
    [][call'.op = "to_dict" =>
        /\ ret' = ret
        /\ DOMAIN call'.result = DOMAIN Val(ret)
        /\ \A f \in DOMAIN Val(ret) :
              call'.result[f] = Rendered(call'.cls, f, Val(ret)[f])]_vars

\* C13 witness: an impact record with a present impact_level and an absent
\* analysis_method was projected.
C13_Witness ==
    /\ call.op = "to_dict"
    /\ call.cls = "FAQImpactAnalysis"
    /\ Val(ret).impact_level = Some("HIGH")
    /\ Val(ret).analysis_method = None
    /\ call.result.impact_level = Some("high")
    /\ call.result.analysis_method = None

====
